---- MODULE Spec2Model ----
(***************************************************************************)
(* MCPallete: the interactive editor of basic_config.json.  The model is   *)
(* the event loop of tui_main (src/src/tui.rs): one action per key         *)
(* handler, the configuration document held in memory, the configuration   *)
(* file and the export file on disk.                                       *)
(*                                                                         *)
(* Conventions.  Option<T> is a sequence of length 0 (None) or 1 (Some).   *)
(* Indices are 0-based as in the source: names[i + 1] is names.get(i).     *)
(* Strings that the code inspects character by character (the preset-name  *)
(* draft, env values) are sequences of one-character strings.              *)
(* A HashMap is a function together with its iteration order: the order    *)
(* is fixed when the map is built and is not determined by its contents.   *)
(***************************************************************************)
EXTENDS Integers, Sequences, FiniteSets, TLC

VARIABLES
    fs,            \* the file system: path -> content
    config,        \* Option<McpServersConfig>, the in-memory document
    env_names,     \* Vec<String>
    mcp_names,     \* Vec<String>
    preset_names,  \* Vec<String>
    env_state,     \* ListState.selected(): Option<usize>
    mcp_state,
    preset_state,
    mcp_checked,   \* Vec<bool>
    preset_input,  \* String
    active_col,    \* ActiveColumn
    exit,          \* "running", or how tui_main returned: "ok" | "err"
    events,        \* number of key events read so far
    last,          \* history: the event handled last, with the outcome of its writes
    io_failed      \* history: a std::fs::write of this session has failed

vars == <<fs, config, env_names, mcp_names, preset_names, env_state, mcp_state,
          preset_state, mcp_checked, preset_input, active_col, exit, events, last, io_failed>>

ui == <<env_names, mcp_names, preset_names, env_state, mcp_state, preset_state,
        mcp_checked, preset_input, active_col>>

---------------------------------------------------------------------------
(* Bounds of the model *)

\* length of the env values given to expand_env_vars
MaxLen == 4

\* number of events in one session: keys read, and edits of the configuration
\* file made outside the program
MaxEvents == 6

---------------------------------------------------------------------------
(* Generic helpers *)

None == <<>>

Some(x) == <<x>>

Range(s) == {s[i] : i \in 1..Len(s)}

\* all iteration orders of a key set
Perms(S) == {s \in [1..Cardinality(S) -> S] : Range(s) = S}

\* Vec::get / slice::get with a 0-based index
Get(s, i) == IF i + 1 \in 1..Len(s) THEN Some(s[i + 1]) ELSE None

\* the elements of s for which keep[i] holds, in order (iter().filter_map())
RECURSIVE Filter(_, _)
Filter(s, keep) ==
    IF s = <<>> THEN <<>>
    ELSE (IF keep[1] THEN <<Head(s)>> ELSE <<>>) \o Filter(Tail(s), Tail(keep))

\* s without its element x (s has no duplicates)
Without(s, x) == Filter(s, [i \in 1..Len(s) |-> s[i] # x])

---------------------------------------------------------------------------
(* Paths and file contents *)

\* get_config_file_path()
ConfigPath == "basic_config.json"

ExportPath == "/tmp/out.json"

\* no file at that path
Missing == [kind |-> "missing"]

\* a file whose text is not JSON
Unparsable == [kind |-> "unparsable"]

\* the file ensure_config creates: b"{\n  \"mcpServers\": {}\n}\n", a JSON object
\* with the one key "mcpServers"
Created == [kind |-> "object", mcpServers |-> <<>>]

\* the fields of McpServersConfig; neither is an Option or has a serde default
RequiredFields == {"mcpServers", "environments"}

\* stands for a typed whitespace character other than ' ' (such as U+3000)
WS == "~"

\* the characters of the keyboard: a letter, the space bar, another whitespace
Chars == {"p", " ", WS}

ServerA == [command |-> "echo", args |-> <<"hi">>, env |-> [K |-> <<"$", "V">>]]

ServerB == [command |-> "cat", args |-> <<>>, env |-> [K |-> <<"x">>]]

\* a hand-written document: one environment, two servers, a path but a mode
\* that is not an export mode
DocSolo ==
    [kind         |-> "doc",
     mcpServers   |-> [n \in {"a", "b"} |-> IF n = "a" THEN ServerA ELSE ServerB],
     environments |-> [e \in {"dev"} |->
        [config_path |-> ExportPath,
         enable      |-> Some(<<"a">>),
         preset      |-> Some([p \in {<<"p">>} |-> <<"b">>]),
         mode        |-> Some("testmode")]]]

\* a hand-written document: two environments, one of them exporting; the
\* name "z" has no definition in mcpServers
DocTwo ==
    [kind         |-> "doc",
     mcpServers   |-> [n \in {"a"} |-> ServerA],
     environments |-> [e \in {"dev", "prod"} |->
        IF e = "dev"
        THEN [config_path |-> ExportPath,
              enable      |-> Some(<<"z", "a">>),
              preset      |-> Some([p \in {<<"p">>, <<"q">>} |->
                                       IF p = <<"p">> THEN <<>> ELSE <<"a", "z">>]),
              mode        |-> Some("claude_desktop")]
        ELSE [config_path |-> "",
              enable      |-> None,
              preset      |-> None,
              mode        |-> None]]]

\* a document with no server and no environment
DocEmpty ==
    [kind         |-> "doc",
     mcpServers   |-> <<>>,
     environments |-> <<>>]

\* a hand-written document: the export mode with an empty path, no server
DocNoPath ==
    [kind         |-> "doc",
     mcpServers   |-> <<>>,
     environments |-> [e \in {"dev"} |->
        [config_path |-> "",
         enable      |-> None,
         preset      |-> None,
         mode        |-> Some("claude_desktop")]]]

\* what the configuration file may hold when the program starts
InitialFiles == {DocTwo, DocSolo, DocNoPath, DocEmpty, Unparsable, Missing}

---------------------------------------------------------------------------
(* serde_json: the document in memory and in the file *)

\* the HashMaps that deserializing a preset object, or an environment, can build
ParsePreset(p) ==
    IF p = None THEN {None}
    ELSE {Some([map |-> p[1], order |-> o]) : o \in Perms(DOMAIN p[1])}

ParseEnv(e) ==
    {[config_path |-> e.config_path, enable |-> e.enable, preset |-> p, mode |-> e.mode] :
        p \in ParsePreset(e.preset)}

\* serde_json::from_str::<McpServersConfig>: every document in memory that the
\* file content can be parsed into (they differ in the maps' iteration orders)
Parse(doc) ==
    {[mcp_servers  |-> doc.mcpServers,
      mcp_order    |-> mo,
      environments |-> envs,
      env_order    |-> eo] :
        mo \in Perms(DOMAIN doc.mcpServers),
        eo \in Perms(DOMAIN doc.environments),
        envs \in {f \in [DOMAIN doc.environments ->
                            UNION {ParseEnv(doc.environments[e]) : e \in DOMAIN doc.environments}] :
                    \A e \in DOMAIN doc.environments : f[e] \in ParseEnv(doc.environments[e])}}

\* load_config(): the results the file content allows
load_config(content) ==
    IF content.kind \in {"doc", "object"} /\ RequiredFields \subseteq DOMAIN content
    THEN {Some(c) : c \in Parse(content)}
    ELSE {None}

SerializePreset(p) == IF p = None THEN None ELSE Some(p[1].map)

\* variant: the file gets the value of V in place of every env text
Serialize_env_valued(cfg) ==
    [kind         |-> "doc",
     mcpServers   |-> [n \in DOMAIN cfg.mcp_servers |->
        [command |-> cfg.mcp_servers[n].command,
         args    |-> cfg.mcp_servers[n].args,
         env     |-> [k \in DOMAIN cfg.mcp_servers[n].env |-> <<"4", "2">>]]],
     environments |-> [e \in DOMAIN cfg.environments |->
        [config_path |-> cfg.environments[e].config_path,
         enable      |-> cfg.environments[e].enable,
         preset      |-> SerializePreset(cfg.environments[e].preset),
         mode        |-> cfg.environments[e].mode]]]

\* serde_json::to_string_pretty(&cfg): the file content written for cfg
Serialize(cfg) ==
    [kind         |-> "doc",
     mcpServers   |-> cfg.mcp_servers,
     environments |-> [e \in DOMAIN cfg.environments |->
        [config_path |-> cfg.environments[e].config_path,
         enable      |-> cfg.environments[e].enable,
         preset      |-> SerializePreset(cfg.environments[e].preset),
         mode        |-> cfg.environments[e].mode]]]

---------------------------------------------------------------------------
(* Derived lists *)

update_env_names(cfg) == IF cfg = None THEN <<>> ELSE cfg[1].env_order

update_mcp_names(cfg) == IF cfg = None THEN <<>> ELSE cfg[1].mcp_order

\* the selected environment's EnvironmentConfig, when there is one:
\* (Some(cfg), Some(env_idx)), env_names.get(env_idx), cfg.environments.get(env_name)
SelectedEnvName(cfg, names, sel) ==
    IF cfg = None \/ sel = None THEN None
    ELSE IF Get(names, sel[1]) = None THEN None
    ELSE IF Get(names, sel[1])[1] \notin DOMAIN cfg[1].environments THEN None
    ELSE Get(names, sel[1])

\* update_preset_names: the names, and the preset selection it sets
update_preset_names(cfg, names, sel) ==
    LET en == SelectedEnvName(cfg, names, sel)
        ns == IF en = None THEN <<>>
              ELSE IF cfg[1].environments[en[1]].preset = None THEN <<>>
              ELSE cfg[1].environments[en[1]].preset[1].order
    IN [names |-> ns, state |-> IF ns # <<>> THEN Some(0) ELSE None]

\* variant: an absent enable list counts as "all enabled" (map_or(true, ..))
CheckedFrom_absent_true(names, enabled) ==
    [i \in 1..Len(names) |-> enabled = None \/ names[i] \in Range(enabled[1])]

\* mcp_names.iter().map(|mcp| enabled.map_or(false, |v| v.contains(mcp)))
CheckedFrom(names, enabled) ==
    [i \in 1..Len(names) |-> enabled # None /\ names[i] \in Range(enabled[1])]

\* variant: one checkbox per entry of the environment's enable list
InitialChecked_per_enabled(cfg, names, sel, mcps) ==
    IF cfg # None /\ sel # None /\ Get(names, sel[1]) # None
       /\ Get(names, sel[1])[1] \in DOMAIN cfg[1].environments
       /\ cfg[1].environments[Get(names, sel[1])[1]].enable # None
    THEN LET enabled == cfg[1].environments[Get(names, sel[1])[1]].enable[1]
         IN  [i \in 1..Len(enabled) |-> enabled[i] \in Range(mcps)]
    ELSE [i \in 1..Len(mcps) |-> FALSE]

\* the checkbox vector computed at startup and on Ctrl+R
InitialChecked(cfg, names, sel, mcps) ==
    IF cfg # None /\ sel # None /\ Get(names, sel[1]) # None
    THEN CheckedFrom(mcps,
            IF Get(names, sel[1])[1] \in DOMAIN cfg[1].environments
            THEN cfg[1].environments[Get(names, sel[1])[1]].enable
            ELSE None)
    ELSE [i \in 1..Len(mcps) |-> FALSE]

---------------------------------------------------------------------------
(* Startup *)

\* variant: the first entry is selected without testing for an empty list
Startup_select_first(cfg) ==
    LET ens == update_env_names(cfg)
        mns == update_mcp_names(cfg)
        ps  == update_preset_names(cfg, ens, Some(0))
    IN  /\ config = cfg
        /\ env_names = ens
        /\ mcp_names = mns
        /\ env_state = Some(0)
        /\ mcp_state = Some(0)
        /\ preset_names = ps.names
        /\ preset_state = ps.state
        /\ mcp_checked = InitialChecked(cfg, ens, Some(0), mns)
        /\ preset_input = <<>>
        /\ active_col = "Environments"

\* the state tui_main builds before its loop, for a loaded (or absent) document
Startup(cfg) ==
    LET ens == update_env_names(cfg)
        mns == update_mcp_names(cfg)
        es  == IF ens # <<>> THEN Some(0) ELSE None
        ps  == update_preset_names(cfg, ens, es)
    IN  /\ config = cfg
        /\ env_names = ens
        /\ mcp_names = mns
        /\ env_state = es
        /\ mcp_state = (IF mns # <<>> THEN Some(0) ELSE None)
        /\ preset_names = ps.names
        /\ preset_state = ps.state
        /\ mcp_checked = InitialChecked(cfg, ens, es, mns)
        /\ preset_input = <<>>
        /\ active_col = "Environments"

\* ensure_config(): creates the configuration file when there is none
ensure_config(files) ==
    IF files[ConfigPath] = Missing THEN [files EXCEPT ![ConfigPath] = Created] ELSE files

\* main(): ensure_config(), then tui_main() with its load_config()
Init ==
    /\ \E f \in InitialFiles :
         /\ fs = ensure_config([p \in {ConfigPath, ExportPath} |->
                                 IF p = ConfigPath THEN f ELSE Missing])
         /\ \E cfg \in load_config(fs[ConfigPath]) : Startup(cfg)
         /\ last = [key |-> "start", col |-> "Environments", created |-> (f = Missing)]
    /\ exit = "running"
    /\ events = 0
    /\ io_failed = FALSE

---------------------------------------------------------------------------
(* expand_env_vars *)

\* the process environment: V=42 and X=1 are set, nothing else is
ProcEnv == [n \in {<<"V">>, <<"X">>} |-> IF n = <<"V">> THEN <<"4", "2">> ELSE <<"1">>]

\* [A-Za-z_] and [A-Za-z0-9_], over the characters the documents use
IsNameStart(c) == c \in {"V", "X", "K", "a", "b", "x", "_"}

IsNameChar(c) == IsNameStart(c) \/ c \in {"0", "1", "2", "4"}

\* variant: a name is a single character
NameLen_one(s) == IF s # <<>> /\ IsNameChar(Head(s)) THEN 1 ELSE 0

\* length of the longest prefix of s made of name characters ([A-Za-z0-9_]*)
RECURSIVE NameLen(_)
NameLen(s) == IF s # <<>> /\ IsNameChar(Head(s)) THEN 1 + NameLen(Tail(s)) ELSE 0

\* variant: an unset variable leaves its name in the text
EnvVar_keep(n) == IF n \in DOMAIN ProcEnv THEN ProcEnv[n] ELSE n

\* std::env::var(var).unwrap_or_else(|_| "".to_string())
EnvVar(n) == IF n \in DOMAIN ProcEnv THEN ProcEnv[n] ELSE <<>>

\* re.replace_all(s, ..): leftmost match first, $NAME tried before ${NAME}
RECURSIVE expand_env_vars(_)
expand_env_vars(s) ==
    IF s = <<>> THEN <<>>
    ELSE IF Head(s) # "$" THEN <<Head(s)>> \o expand_env_vars(Tail(s))
    ELSE LET r == Tail(s)
             n == NameLen(r)
             m == IF Len(r) >= 2 THEN NameLen(Tail(r)) ELSE 0
         IN IF r # <<>> /\ IsNameStart(r[1])
            THEN EnvVar(SubSeq(r, 1, n)) \o expand_env_vars(SubSeq(r, n + 1, Len(r)))
            ELSE IF /\ Len(r) >= 3
                    /\ r[1] = "{"
                    /\ IsNameStart(r[2])
                    /\ m + 2 <= Len(r)
                    /\ r[m + 2] = "}"
            THEN EnvVar(SubSeq(r, 2, m + 1)) \o expand_env_vars(SubSeq(r, m + 3, Len(r)))
            ELSE <<"$">> \o expand_env_vars(r)

---------------------------------------------------------------------------
(* The event loop *)

\* event::poll / event::read deliver one more key event while the loop runs
Polled ==
    /\ exit = "running"
    /\ events < MaxEvents
    /\ events' = events + 1

---------------------------------------------------------------------------
(* Ctrl+S *)

\* the names of the checked servers, in list order
\* (mcp_checked.get(i).copied().unwrap_or(false))
Enabled(names, checked) ==
    Filter(names, [i \in 1..Len(names) |-> i <= Len(checked) /\ checked[i]])

\* variant: the env values are exported as they are written
Projection_raw(cfg, names, checked) ==
    [kind       |-> "desktop",
     mcpServers |-> [n \in Range(Enabled(names, checked)) \cap DOMAIN cfg.mcp_servers |->
        cfg.mcp_servers[n]]]

\* ClaudeDesktopConfig { mcp_servers: selected_servers }
Projection(cfg, names, checked) ==
    [kind       |-> "desktop",
     mcpServers |-> [n \in Range(Enabled(names, checked)) \cap DOMAIN cfg.mcp_servers |->
        [command |-> cfg.mcp_servers[n].command,
         args    |-> cfg.mcp_servers[n].args,
         env     |-> [k \in DOMAIN cfg.mcp_servers[n].env |->
                         expand_env_vars(cfg.mcp_servers[n].env[k])]]]]

\* variant: any environment with a path exports, whatever its mode
Exports_any_mode(env_cfg) == env_cfg.config_path # ""

\* mode == "claude_desktop" && !env_cfg.config_path.is_empty()
Exports(env_cfg) ==
    /\ env_cfg.mode # None
    /\ env_cfg.mode[1] = "claude_desktop"
    /\ env_cfg.config_path # ""

\* variant: the checked names become the enable list of every environment
SetEnable_all(cfg, e, enabled) ==
    [cfg EXCEPT !.environments =
        [o \in DOMAIN cfg.environments |-> [cfg.environments[o] EXCEPT !.enable = Some(enabled)]]]

\* variant: the checked names are added to the earlier enable list
SetEnable_merge(cfg, e, enabled) ==
    [cfg EXCEPT !.environments[e].enable =
        Some((IF @ = None THEN <<>> ELSE @[1]) \o enabled)]

\* env_cfg.enable = Some(enabled)
SetEnable(cfg, e, enabled) ==
    [cfg EXCEPT !.environments[e].enable = Some(enabled)]

\* char::is_whitespace, over the characters of the keyboard
IsWhitespace(c) == c \in {" ", WS}

RECURSIVE TrimStart(_)
TrimStart(s) == IF s # <<>> /\ IsWhitespace(Head(s)) THEN TrimStart(Tail(s)) ELSE s

RECURSIVE TrimEnd(_)
TrimEnd(s) ==
    IF s # <<>> /\ IsWhitespace(s[Len(s)]) THEN TrimEnd(SubSeq(s, 1, Len(s) - 1)) ELSE s

\* str::trim
Trim(s) == TrimEnd(TrimStart(s))

\* variant: a save rewrites every preset of the map with the saved list
InsertPreset_sync(pm, name, servers) ==
    {[map   |-> [k \in DOMAIN pm.map \cup {name} |-> servers],
      order |-> o] : o \in Perms(DOMAIN pm.map \cup {name})}

\* HashMap::insert on a preset map: the value of an existing key is replaced in
\* place; a new key may land anywhere in the iteration order (the map may rehash)
InsertPreset(pm, name, servers) ==
    IF name \in DOMAIN pm.map
    THEN {[map |-> [pm.map EXCEPT ![name] = servers], order |-> pm.order]}
    ELSE {[map   |-> [k \in DOMAIN pm.map \cup {name} |->
                        IF k = name THEN servers ELSE pm.map[k]],
           order |-> o] : o \in Perms(DOMAIN pm.map \cup {name})}

\* HashMap::new()
EmptyPresets == [map |-> <<>>, order |-> <<>>]

\* env_cfg.preset after preset.insert(preset_input.trim().to_string(), enabled)
SavePreset(cfg, e, name, servers) ==
    {[cfg EXCEPT !.environments[e].preset = Some(pm)] :
        pm \in InsertPreset(IF cfg.environments[e].preset = None
                            THEN EmptyPresets
                            ELSE cfg.environments[e].preset[1], name, servers)}

\* variant: the whole preset map is cleared
RemovePreset_all(cfg, e, name) ==
    [cfg EXCEPT !.environments[e].preset = Some([map |-> <<>>, order |-> <<>>])]

\* HashMap::remove: the other keys keep their places
RemovePreset(cfg, e, name) ==
    LET pm == cfg.environments[e].preset[1]
    IN [cfg EXCEPT !.environments[e].preset =
            Some([map   |-> [k \in DOMAIN pm.map \ {name} |-> pm.map[k]],
                  order |-> Without(pm.order, name)])]

\* variant: the content never reaches the file
Write_dropped(files, path, content, ok) == files

\* std::fs::write(path, content), which succeeds (ok) or leaves the file as it was
Write(files, path, content, ok) ==
    IF ok THEN [files EXCEPT ![path] = content] ELSE files

\* KeyCode::Char('s') with CONTROL
KeyCtrlS ==
    /\ Polled
    /\ \E okExport \in BOOLEAN, okMain \in BOOLEAN, okPreset \in BOOLEAN :
        LET en       == SelectedEnvName(config, env_names, env_state)
            found    == en # None
            export   == found /\ Exports(config[1].environments[en[1]])
            enabled  == Enabled(mcp_names, mcp_checked)
            \* the export file is written first; its failure returns from tui_main
            aborted  == export /\ ~okExport
            fs1      == IF export
                        THEN Write(fs, config[1].environments[en[1]].config_path,
                                   Projection(config[1], mcp_names, mcp_checked), okExport)
                        ELSE fs
            cfg1     == IF found THEN Some(SetEnable(config[1], en[1], enabled)) ELSE config
            fs2      == IF found THEN Write(fs1, ConfigPath, Serialize(cfg1[1]), okMain) ELSE fs1
            saving   == active_col = "PresetSubmit" /\ Trim(preset_input) # <<>> /\ found
            done(x, m, p) == [key |-> "CtrlS", col |-> active_col, env |-> en,
                              prev |-> <<last.key, last.col>>,
                              export |-> x, main |-> m, preset |-> p]
        IN  IF aborted
            THEN /\ exit' = "err"
                 /\ fs' = fs1
                 /\ last' = done("failed", "none", "none")
                 /\ io_failed' = TRUE
                 /\ UNCHANGED <<config, ui>>
            ELSE IF ~saving
            THEN /\ config' = cfg1
                 /\ fs' = fs2
                 /\ last' = done(IF export THEN "written" ELSE "none",
                                 IF ~found THEN "none" ELSE IF okMain THEN "written" ELSE "failed",
                                 "none")
                 /\ io_failed' = (io_failed \/ (found /\ ~okMain))
                 /\ UNCHANGED <<ui, exit>>
            ELSE \E cfg2 \in SavePreset(cfg1[1], en[1], Trim(preset_input), enabled) :
                 LET ps == update_preset_names(Some(cfg2), env_names, env_state)
                 IN  /\ config' = Some(cfg2)
                     /\ fs' = Write(fs2, ConfigPath, Serialize(cfg2), okPreset)
                     /\ preset_names' = (IF okPreset THEN ps.names ELSE preset_names)
                     /\ preset_state' = (IF okPreset THEN ps.state ELSE preset_state)
                     /\ preset_input' = (IF okPreset THEN <<>> ELSE preset_input)
                     /\ last' = done(IF export THEN "written" ELSE "none",
                                     IF okMain THEN "written" ELSE "failed",
                                     IF okPreset THEN "written" ELSE "failed")
                     /\ io_failed' = (io_failed \/ ~okMain \/ ~okPreset)
                     /\ UNCHANGED <<env_names, mcp_names, env_state, mcp_state,
                                    mcp_checked, active_col, exit>>

---------------------------------------------------------------------------
(* The other key handlers *)

\* KeyCode::Char('c') with CONTROL: break
KeyCtrlC ==
    /\ Polled
    /\ exit' = "ok"
    /\ last' = [key |-> "CtrlC", col |-> active_col]
    /\ UNCHANGED <<fs, config, ui, io_failed>>

\* variant: a Reload creates the configuration file when there is none
KeyCtrlR_ensure ==
    /\ Polled
    /\ fs' = ensure_config(fs)
    /\ \E cfg \in load_config(fs'[ConfigPath]) :
        LET ens == update_env_names(cfg)
            mns == update_mcp_names(cfg)
            es  == IF ens # <<>> THEN Some(0) ELSE None
            ps  == update_preset_names(cfg, ens, es)
        IN  /\ config' = cfg
            /\ env_names' = ens
            /\ mcp_names' = mns
            /\ env_state' = es
            /\ mcp_state' = (IF mns # <<>> THEN Some(0) ELSE None)
            /\ preset_names' = ps.names
            /\ preset_state' = ps.state
            /\ mcp_checked' = InitialChecked(cfg, ens, es, mns)
            /\ last' = [key |-> "CtrlR", col |-> active_col, loaded |-> cfg # None,
                        from |-> env_state]
    /\ UNCHANGED <<preset_input, active_col, exit, io_failed>>

\* variant: a Reload keeps the environment and server selections it finds
KeyCtrlR_keep_selection ==
    /\ Polled
    /\ \E cfg \in load_config(fs[ConfigPath]) :
        LET ens == update_env_names(cfg)
            mns == update_mcp_names(cfg)
            ps  == update_preset_names(cfg, ens, env_state)
        IN  /\ config' = cfg
            /\ env_names' = ens
            /\ mcp_names' = mns
            /\ preset_names' = ps.names
            /\ preset_state' = ps.state
            /\ mcp_checked' = InitialChecked(cfg, ens, env_state, mns)
            /\ last' = [key |-> "CtrlR", col |-> active_col, loaded |-> cfg # None,
                        from |-> env_state]
    /\ UNCHANGED <<fs, env_state, mcp_state, preset_input, active_col, exit, io_failed>>

\* KeyCode::Char('r') with CONTROL
KeyCtrlR ==
    /\ Polled
    /\ \E cfg \in load_config(fs[ConfigPath]) :
        LET ens == update_env_names(cfg)
            mns == update_mcp_names(cfg)
            es  == IF ens # <<>> THEN Some(0) ELSE None
            ps  == update_preset_names(cfg, ens, es)
        IN  /\ config' = cfg
            /\ env_names' = ens
            /\ mcp_names' = mns
            /\ env_state' = es
            /\ mcp_state' = (IF mns # <<>> THEN Some(0) ELSE None)
            /\ preset_names' = ps.names
            /\ preset_state' = ps.state
            /\ mcp_checked' = InitialChecked(cfg, ens, es, mns)
            /\ last' = [key |-> "CtrlR", col |-> active_col, loaded |-> cfg # None,
                        from |-> env_state]
    /\ UNCHANGED <<fs, preset_input, active_col, exit, io_failed>>

\* KeyCode::Char('d') with CONTROL
KeyCtrlD ==
    /\ Polled
    /\ \E ok \in BOOLEAN :
        LET en == SelectedEnvName(config, env_names, env_state)
            pn == IF preset_state = None THEN None ELSE Get(preset_names, preset_state[1])
            removes == /\ active_col = "PresetList"
                       /\ en # None
                       /\ pn # None
                       /\ config[1].environments[en[1]].preset # None
            cfg1 == IF removes THEN Some(RemovePreset(config[1], en[1], pn[1])) ELSE config
            ps   == update_preset_names(cfg1, env_names, env_state)
        IN  /\ config' = cfg1
            /\ fs' = (IF removes THEN Write(fs, ConfigPath, Serialize(cfg1[1]), ok) ELSE fs)
            /\ preset_names' = (IF removes /\ ok THEN ps.names ELSE preset_names)
            /\ preset_state' = (IF removes /\ ok THEN ps.state ELSE preset_state)
            /\ last' = [key |-> "CtrlD", col |-> active_col,
                        removed |-> IF removes THEN pn ELSE None,
                        env |-> IF removes THEN en ELSE None,
                        written |-> removes /\ ok]
            /\ io_failed' = (io_failed \/ (removes /\ ~ok))
    /\ UNCHANGED <<env_names, mcp_names, env_state, mcp_state, mcp_checked,
                   preset_input, active_col, exit>>

\* KeyCode::Left
KeyLeft ==
    /\ Polled
    /\ active_col' = CASE active_col = "McpServers"   -> "Environments"
                       [] active_col = "PresetList"   -> "McpServers"
                       [] active_col = "PresetSubmit" -> "PresetList"
                       [] OTHER                       -> active_col
    /\ last' = [key |-> "Left", col |-> active_col]
    /\ UNCHANGED <<fs, config, env_names, mcp_names, preset_names, env_state, mcp_state,
                   preset_state, mcp_checked, preset_input, exit, io_failed>>

\* variant: Right wraps from the last column to the first
KeyRight_wrap ==
    /\ Polled
    /\ active_col' = CASE active_col = "Environments" -> "McpServers"
                       [] active_col = "McpServers"   -> "PresetList"
                       [] active_col = "PresetList"   -> "PresetSubmit"
                       [] OTHER                       -> "Environments"
    /\ last' = [key |-> "Right", col |-> active_col]
    /\ UNCHANGED <<fs, config, env_names, mcp_names, preset_names, env_state, mcp_state,
                   preset_state, mcp_checked, preset_input, exit, io_failed>>

\* KeyCode::Right
KeyRight ==
    /\ Polled
    /\ active_col' = CASE active_col = "Environments" -> "McpServers"
                       [] active_col = "McpServers"   -> "PresetList"
                       [] active_col = "PresetList"   -> "PresetSubmit"
                       [] OTHER                       -> active_col
    /\ last' = [key |-> "Right", col |-> active_col]
    /\ UNCHANGED <<fs, config, env_names, mcp_names, preset_names, env_state, mcp_state,
                   preset_state, mcp_checked, preset_input, exit, io_failed>>

\* variant: Tab stops at the last column
KeyTab_clamp ==
    /\ Polled
    /\ active_col' = CASE active_col = "Environments" -> "McpServers"
                       [] active_col = "McpServers"   -> "PresetList"
                       [] active_col = "PresetList"   -> "PresetSubmit"
                       [] OTHER                       -> active_col
    /\ last' = [key |-> "Tab", col |-> active_col]
    /\ UNCHANGED <<fs, config, env_names, mcp_names, preset_names, env_state, mcp_state,
                   preset_state, mcp_checked, preset_input, exit, io_failed>>

\* KeyCode::Tab
KeyTab ==
    /\ Polled
    /\ active_col' = CASE active_col = "Environments" -> "McpServers"
                       [] active_col = "McpServers"   -> "PresetList"
                       [] active_col = "PresetList"   -> "PresetSubmit"
                       [] active_col = "PresetSubmit" -> "Environments"
    /\ last' = [key |-> "Tab", col |-> active_col]
    /\ UNCHANGED <<fs, config, env_names, mcp_names, preset_names, env_state, mcp_state,
                   preset_state, mcp_checked, preset_input, exit, io_failed>>

\* variant: the selection stops at the ends of the list
Moved_clamp(up, sel, n) ==
    LET i == IF sel = None THEN 0 ELSE sel[1]
    IN IF up
       THEN (IF i = 0 THEN 0 ELSE i - 1)
       ELSE (IF i + 1 >= n THEN i ELSE i + 1)

\* the index Up or Down moves to in a list of length n
\* (i is selected().unwrap_or(0); saturating_sub keeps 0 for an empty list)
Moved(up, sel, n) ==
    LET i == IF sel = None THEN 0 ELSE sel[1]
    IN IF up
       THEN (IF i = 0 THEN (IF n = 0 THEN 0 ELSE n - 1) ELSE i - 1)
       ELSE (IF i + 1 >= n THEN 0 ELSE i + 1)

\* KeyCode::Up | KeyCode::Down
KeyUpDown(up) ==
    /\ Polled
    /\ CASE active_col = "Environments" ->
              LET new == Moved(up, env_state, Len(env_names))
                  ps  == update_preset_names(config, env_names, Some(new))
              IN  /\ env_state' = Some(new)
                  /\ preset_names' = ps.names
                  /\ preset_state' = ps.state
                  /\ mcp_checked' =
                        (IF config # None /\ Get(env_names, new) # None
                         THEN CheckedFrom(mcp_names,
                                IF Get(env_names, new)[1] \in DOMAIN config[1].environments
                                THEN config[1].environments[Get(env_names, new)[1]].enable
                                ELSE None)
                         ELSE mcp_checked)
                  /\ UNCHANGED mcp_state
         [] active_col = "McpServers" ->
              /\ mcp_state' = Some(Moved(up, mcp_state, Len(mcp_names)))
              /\ UNCHANGED <<env_state, preset_names, preset_state, mcp_checked>>
         [] active_col = "PresetList" ->
              /\ preset_state' = Some(Moved(up, preset_state, Len(preset_names)))
              /\ UNCHANGED <<env_state, mcp_state, preset_names, mcp_checked>>
         [] active_col = "PresetSubmit" ->
              UNCHANGED <<env_state, mcp_state, preset_names, preset_state, mcp_checked>>
    /\ last' = [key |-> IF up THEN "Up" ELSE "Down", col |-> active_col,
                before |-> mcp_checked,
                from |-> CASE active_col = "Environments" -> env_state
                           [] active_col = "McpServers" -> mcp_state
                           [] active_col = "PresetList" -> preset_state
                           [] active_col = "PresetSubmit" -> None]
    /\ UNCHANGED <<fs, config, env_names, mcp_names, preset_input, active_col, exit, io_failed>>

KeyUp == KeyUpDown(TRUE)

KeyDown == KeyUpDown(FALSE)

\* variant: boxes that were checked stay checked (a merge)
CheckedFromPreset_merge(names, enabled_list) ==
    [i \in 1..Len(names) |->
        names[i] \in Range(enabled_list) \/ (i <= Len(mcp_checked) /\ mcp_checked[i])]

\* mcp_names.iter().map(|mcp| enabled_list.contains(mcp))
CheckedFromPreset(names, enabled_list) ==
    [i \in 1..Len(names) |-> names[i] \in Range(enabled_list)]

\* the checkbox vector Space computes from the selected preset
PresetChecked ==
    LET en == SelectedEnvName(config, env_names, env_state)
        pn == IF preset_state = None THEN None ELSE Get(preset_names, preset_state[1])
        allFalse == [i \in 1..Len(mcp_names) |-> FALSE]
    IN IF config # None /\ env_state # None /\ preset_state # None
          /\ Get(env_names, env_state[1]) # None /\ pn # None
          /\ en # None
       THEN (IF config[1].environments[en[1]].preset # None
             THEN (IF pn[1] \in DOMAIN config[1].environments[en[1]].preset[1].map
                   THEN CheckedFromPreset(mcp_names,
                            config[1].environments[en[1]].preset[1].map[pn[1]])
                   ELSE allFalse)
             ELSE allFalse)
       ELSE allFalse

\* variant: Space inverts every checkbox
Toggled_all(checked, sel) ==
    IF sel # None /\ sel[1] + 1 \in 1..Len(checked)
    THEN [i \in 1..Len(checked) |-> ~checked[i]]
    ELSE checked

\* if let Some(val) = mcp_checked.get_mut(idx) { *val = !*val; }
Toggled(checked, sel) ==
    IF sel # None /\ sel[1] + 1 \in 1..Len(checked)
    THEN [checked EXCEPT ![sel[1] + 1] = ~checked[sel[1] + 1]]
    ELSE checked

\* variant: a toggle is written to the file at once
KeySpace_autosave ==
    /\ Polled
    /\ LET en  == SelectedEnvName(config, env_names, env_state)
           new == IF active_col = "McpServers" /\ mcp_state # None
                     /\ mcp_state[1] + 1 \in 1..Len(mcp_checked)
                  THEN [mcp_checked EXCEPT ![mcp_state[1] + 1] = ~mcp_checked[mcp_state[1] + 1]]
                  ELSE IF active_col = "PresetList" THEN PresetChecked ELSE mcp_checked
       IN  /\ mcp_checked' = new
           /\ config' = (IF en # None /\ active_col = "McpServers"
                         THEN Some(SetEnable(config[1], en[1], Enabled(mcp_names, new)))
                         ELSE config)
           /\ fs' = (IF en # None /\ active_col = "McpServers"
                     THEN Write(fs, ConfigPath, Serialize(config'[1]), TRUE) ELSE fs)
    /\ last' = [key |-> "Space", col |-> active_col, before |-> mcp_checked]
    /\ UNCHANGED <<env_names, mcp_names, preset_names, env_state, mcp_state,
                   preset_state, preset_input, active_col, exit, io_failed>>

\* KeyCode::Char(' ')
KeySpace ==
    /\ Polled
    /\ mcp_checked' =
         CASE active_col = "McpServers" -> Toggled(mcp_checked, mcp_state)
           [] active_col = "PresetList" -> PresetChecked
           [] OTHER -> mcp_checked
    /\ last' = [key |-> "Space", col |-> active_col, before |-> mcp_checked]
    /\ UNCHANGED <<fs, config, env_names, mcp_names, preset_names, env_state, mcp_state,
                   preset_state, preset_input, active_col, exit, io_failed>>

\* KeyCode::Char(c), for a character other than ' ' (which the arm above takes)
KeyChar(c) ==
    /\ Polled
    /\ c # " "
    /\ preset_input' = (IF active_col = "PresetSubmit"
                        THEN Append(preset_input, c) ELSE preset_input)
    /\ last' = [key |-> "Char", col |-> active_col, char |-> c]
    /\ UNCHANGED <<fs, config, env_names, mcp_names, preset_names, env_state, mcp_state,
                   preset_state, mcp_checked, active_col, exit, io_failed>>

\* KeyCode::Backspace
KeyBackspace ==
    /\ Polled
    /\ preset_input' = (IF active_col = "PresetSubmit" /\ preset_input # <<>>
                        THEN SubSeq(preset_input, 1, Len(preset_input) - 1)
                        ELSE preset_input)
    /\ last' = [key |-> "Backspace", col |-> active_col]
    /\ UNCHANGED <<fs, config, env_names, mcp_names, preset_names, env_state, mcp_state,
                   preset_state, mcp_checked, active_col, exit, io_failed>>

\* what an edit made outside the program can leave at the configuration path:
\* text that is not JSON, or no file
Damaged == {Unparsable, Missing}

\* what the configuration file can hold after an edit: a damaged file, or
\* another document
EditedFiles == Damaged \cup {DocSolo}

\* the configuration file is edited or removed while the session runs; the
\* program sees it at its next load_config()
ExternalEdit ==
    /\ exit = "running"
    /\ events < MaxEvents
    /\ events' = events + 1
    /\ \E f \in EditedFiles :
         /\ fs[ConfigPath] # f
         /\ fs' = [fs EXCEPT ![ConfigPath] = f]
    /\ last' = [key |-> "edit", col |-> active_col]
    /\ UNCHANGED <<config, ui, exit, io_failed>>

Next ==
    \/ ExternalEdit
    \/ KeyCtrlC
    \/ KeyCtrlS
    \/ KeyCtrlR
    \/ KeyCtrlD
    \/ KeyLeft
    \/ KeyRight
    \/ KeyTab
    \/ KeyUp
    \/ KeyDown
    \/ KeySpace
    \/ \E c \in Chars : KeyChar(c)
    \/ KeyBackspace

Spec == Init /\ [][Next]_vars

---------------------------------------------------------------------------
(* Vocabulary of the properties *)

\* the selected environment's name, as an Option
SelEnv == SelectedEnvName(config, env_names, env_state)

\* the names of the servers whose checkbox is true
CheckedSet == {mcp_names[i] : i \in {j \in 1..Len(mcp_names) : j <= Len(mcp_checked) /\ mcp_checked[j]}}

\* an environment's enabledServers as a set (absent means none)
EnableSet(env) == IF env.enable = None THEN {} ELSE Range(env.enable[1])

\* an in-memory environment's presets: name -> recorded server list
PresetMap(env) == IF env.preset = None THEN <<>> ELSE env.preset[1].map

\* the persisted document
Persisted == fs[ConfigPath]

\* the persisted enabledServers of every environment
PersistedEnable ==
    IF Persisted.kind = "doc"
    THEN [e \in DOMAIN Persisted.environments |-> EnableSet(Persisted.environments[e])]
    ELSE <<>>

\* the selected entry of the preset list, as an Option
SelPreset == IF preset_state = None THEN None ELSE Get(preset_names, preset_state[1])

\* the server set recorded by the selected preset in the document (empty
\* when the list entry is no preset of the document any more)
RecordedSet ==
    IF SelEnv # None /\ SelPreset # None
       /\ SelPreset[1] \in DOMAIN PresetMap(config[1].environments[SelEnv[1]])
    THEN Range(PresetMap(config[1].environments[SelEnv[1]])[SelPreset[1]])
    ELSE {}

\* the last event was Ctrl+S
Committed == last.key = "CtrlS"

---------------------------------------------------------------------------
(* C1 *)

\* C1 (as claimed): after every Ctrl+S handled with a document loaded and an
\* environment selected, that environment's enabledServers is exactly the set
\* of checked server names, in memory and, when a write of the document
\* succeeded, in the file.
C1_CommitReplacesEnableSet ==
    (Committed /\ config # None /\ SelEnv # None) =>
        /\ config[1].environments[SelEnv[1]].enable # None
        /\ EnableSet(config[1].environments[SelEnv[1]]) = CheckedSet
        /\ (last.main = "written" \/ last.preset = "written") =>
              /\ Persisted.kind = "doc"
              /\ EnableSet(Persisted.environments[SelEnv[1]]) = CheckedSet

---------------------------------------------------------------------------
(* C2 *)

\* the last two events were Space in the preset list, with an environment and
\* one of its presets selected, and then Ctrl+S
AppliedThenCommitted ==
    /\ Committed
    /\ last.prev = <<"Space", "PresetList">>
    /\ SelEnv # None
    /\ SelPreset # None
    /\ SelPreset[1] \in DOMAIN PresetMap(config[1].environments[SelEnv[1]])

\* C2 (as claimed): ApplyPreset followed immediately by Commit leaves the
\* persisted enabledServers equal, as a set, to the preset's recorded set.
C2_RoundTripExact ==
    AppliedThenCommitted =>
        /\ Persisted.kind = "doc"
        /\ EnableSet(Persisted.environments[SelEnv[1]]) = RecordedSet

\* C2 (amended): ApplyPreset followed immediately by a Commit whose write of
\* the document succeeds leaves the persisted enabledServers equal, as a set,
\* to the preset's recorded names that have a definition in servers.
C2_RoundTripDefined ==
    (AppliedThenCommitted /\ last.main = "written") =>
        /\ Persisted.kind = "doc"
        /\ EnableSet(Persisted.environments[SelEnv[1]])
             = RecordedSet \cap DOMAIN config[1].mcp_servers

\* C2 witness: a preset recording the undefined name "z" was applied and
\* committed, and the file holds the defined part of it
C2_Witness ==
    /\ AppliedThenCommitted
    /\ last.main = "written"
    /\ "z" \in RecordedSet
    /\ EnableSet(Persisted.environments[SelEnv[1]]) = {"a"}

---------------------------------------------------------------------------
(* C3 *)

\* the last event was Up or Down with Environments focused
EnvMoved == last.key \in {"Up", "Down"} /\ last.col = "Environments"

\* C3: after Up/Down in the Environments column the checkbox vector is as long
\* as the server list, and with an environment selected checked[i] holds
\* exactly when serverNames[i] is in that environment's enabledServers.
C3_SelectEnvironmentRecomputes ==
    EnvMoved =>
        /\ Len(mcp_checked) = Len(mcp_names)
        /\ SelEnv # None =>
              \A i \in 1..Len(mcp_names) :
                 mcp_checked[i] <=> mcp_names[i] \in EnableSet(config[1].environments[SelEnv[1]])

\* C3 witness: the move wrapped onto the only environment and threw away an
\* unsaved checkbox edit
C3_Witness ==
    /\ EnvMoved
    /\ Len(env_names) = 1
    /\ SelEnv # None
    /\ last.before # mcp_checked

---------------------------------------------------------------------------
(* C4 *)

\* C4: a Ctrl+D that deletes removes exactly the targeted preset of the current
\* environment; every other preset, every enabledServers, the servers mapping
\* and the checkbox vector are unchanged.
C4_DeletePresetFrame ==
    [][(last'.key = "CtrlD" /\ last'.removed # None) =>
          LET e == last'.env[1]
              n == last'.removed[1]
              old == PresetMap(config[1].environments[e])
          IN  /\ config' # None
              /\ DOMAIN config'[1].environments = DOMAIN config[1].environments
              /\ PresetMap(config'[1].environments[e]) = [k \in DOMAIN old \ {n} |-> old[k]]
              /\ \A o \in DOMAIN config[1].environments \ {e} :
                    config'[1].environments[o].preset = config[1].environments[o].preset
              /\ \A o \in DOMAIN config[1].environments :
                    config'[1].environments[o].enable = config[1].environments[o].enable
              /\ config'[1].mcp_servers = config[1].mcp_servers
              /\ mcp_checked' = mcp_checked]_vars

\* C4 witness: a preset was deleted from an environment that keeps another
\* preset, in a document with a second environment
C4_Witness ==
    /\ last.key = "CtrlD"
    /\ last.removed # None
    /\ Len(env_names) = 2
    /\ DOMAIN PresetMap(config[1].environments[last.env[1]]) # {}
    /\ last.removed[1] \notin DOMAIN PresetMap(config[1].environments[last.env[1]])

---------------------------------------------------------------------------
(* C5 *)

\* C5 (as claimed): right after a Ctrl+D that deletes, the persisted document
\* no longer contains the deleted preset.
C5_DeletePersistsAlways ==
    (last.key = "CtrlD" /\ last.removed # None) =>
        /\ Persisted.kind = "doc"
        /\ Persisted.environments[last.env[1]].preset # None =>
              last.removed[1] \notin DOMAIN Persisted.environments[last.env[1]].preset[1]

\* C5 (amended): right after a Ctrl+D that deletes and whose file write
\* succeeds, the persisted document is the in-memory document and no longer
\* contains the deleted preset.
C5_DeletePersistsWhenWritten ==
    (last.key = "CtrlD" /\ last.removed # None /\ last.written) =>
        /\ Persisted = Serialize(config[1])
        /\ Persisted.environments[last.env[1]].preset # None
        /\ last.removed[1] \notin DOMAIN Persisted.environments[last.env[1]].preset[1]

\* C5 witness: a delete was written although the checkboxes hold an edit that
\* no Commit has saved
C5_Witness ==
    /\ last.key = "CtrlD"
    /\ last.removed # None
    /\ last.written
    /\ CheckedSet # EnableSet(config[1].environments[last.env[1]]) \cap Range(mcp_names)

---------------------------------------------------------------------------
(* C6 *)

\* the events that are neither Commit nor Reload nor the end of the session
EditKeys == {"Space", "Up", "Down", "Left", "Right", "Tab", "Char", "Backspace", "CtrlD"}

\* the enabledServers of every environment of the document in memory
MemoryEnable ==
    IF config = None THEN <<>>
    ELSE [e \in DOMAIN config[1].environments |-> EnableSet(config[1].environments[e])]

\* C6: while the file holds the enable lists of the document in memory (no
\* write has failed, no edit was made outside the program), no event other
\* than Commit (and Reload, which writes nothing) changes the persisted
\* enabledServers of any environment.
C6_OnlyCommitPersistsToggles ==
    [][(/\ last'.key \in EditKeys
        /\ Persisted.kind = "doc"
        /\ PersistedEnable = MemoryEnable)
       => PersistedEnable' = PersistedEnable]_vars

\* C6 witness: a delete rewrote the file while a checkbox edit was pending, and
\* the file's enabledServers still is the loaded one
C6_Witness ==
    /\ last.key = "CtrlD"
    /\ last.written
    /\ ~io_failed
    /\ SelEnv # None
    /\ CheckedSet # EnableSet(config[1].environments[SelEnv[1]]) \cap Range(mcp_names)
    /\ PersistedEnable[SelEnv[1]] = EnableSet(config[1].environments[SelEnv[1]])

---------------------------------------------------------------------------
(* C7 *)

\* the last event was Space in the preset list with an environment and a list
\* entry selected
PresetApplied ==
    /\ last.key = "Space"
    /\ last.col = "PresetList"
    /\ SelEnv # None
    /\ SelPreset # None

\* C7: after ApplyPreset the checkbox vector is as long as the server list and
\* checked[i] holds exactly when serverNames[i] is in the preset's recorded
\* set, whatever the boxes held before.
C7_ApplyPresetReplaces ==
    PresetApplied =>
        /\ Len(mcp_checked) = Len(mcp_names)
        /\ \A i \in 1..Len(mcp_names) : mcp_checked[i] <=> mcp_names[i] \in RecordedSet

\* C7 witness: applying the preset cleared a box that was checked
C7_Witness ==
    /\ PresetApplied
    /\ SelPreset[1] \in DOMAIN PresetMap(config[1].environments[SelEnv[1]])
    /\ \E i \in 1..Len(mcp_checked) : last.before[i] /\ ~mcp_checked[i]

---------------------------------------------------------------------------
(* C8 *)

\* C8 (as claimed, the draft being non-empty once trimmed): a Ctrl+S with
\* PresetSubmit focused, a draft and an environment selected records, in that
\* environment, the preset named by the trimmed draft with exactly the checked
\* server names, and changes no other preset of any environment.
C8_CommitSavesPreset ==
    [][(last'.key = "CtrlS" /\ active_col = "PresetSubmit"
          /\ Trim(preset_input) # <<>> /\ SelEnv # None) =>
          LET e == SelEnv[1]
              n == Trim(preset_input)
          IN  /\ n \in DOMAIN PresetMap(config'[1].environments[e])
              /\ Range(PresetMap(config'[1].environments[e])[n]) = CheckedSet
              /\ \A o \in DOMAIN config[1].environments :
                   \A k \in DOMAIN PresetMap(config[1].environments[o]) :
                      (o # e \/ k # n) =>
                         /\ k \in DOMAIN PresetMap(config'[1].environments[o])
                         /\ PresetMap(config'[1].environments[o])[k]
                              = PresetMap(config[1].environments[o])[k]]_vars

---------------------------------------------------------------------------
(* C9 *)

\* C9 (as claimed): a Ctrl+R that directly follows a Ctrl+R (the file cannot
\* have changed in between) leaves every derived list, every selection and the
\* checkbox vector as the first one left them.
C9_ReloadTwiceSame ==
    [][(last.key = "CtrlR" /\ last'.key = "CtrlR") =>
          UNCHANGED <<env_names, mcp_names, preset_names, env_state, mcp_state,
                      preset_state, mcp_checked>>]_vars

---------------------------------------------------------------------------
(* C10 *)

\* a selection is "none" for an empty list and a valid index otherwise
ValidSelection(sel, names) ==
    IF names = <<>> THEN sel = None ELSE sel # None /\ sel[1] \in 0..(Len(names) - 1)

\* C10 (as claimed): in every reachable state the three selections are "none"
\* for an empty list and a valid index of their list otherwise.
C10_SelectionsValid ==
    /\ ValidSelection(env_state, env_names)
    /\ ValidSelection(mcp_state, mcp_names)
    /\ ValidSelection(preset_state, preset_names)

---------------------------------------------------------------------------
(* Moving the selection and the focus *)

\* the list Up or Down last moved in, and its selection
MovedNames ==
    CASE last.col = "Environments" -> env_names
      [] last.col = "McpServers"   -> mcp_names
      [] last.col = "PresetList"   -> preset_names
      [] OTHER                     -> <<>>

MovedSel ==
    CASE last.col = "Environments" -> env_state
      [] last.col = "McpServers"   -> mcp_state
      [] last.col = "PresetList"   -> preset_state
      [] OTHER                     -> None

\* C11: in a non-empty focused list of length n with index i selected, Down
\* selects (i + 1) mod n and Up selects (i - 1) mod n (so n Downs, or an Up and
\* a Down, come back to i).
C11_UpDownModular ==
    (/\ last.key \in {"Up", "Down"}
     /\ MovedNames # <<>>
     /\ last.from # None)
    => LET n == Len(MovedNames)
           i == last.from[1]
       IN  /\ i < n
           /\ MovedSel = Some((IF last.key = "Down" THEN i + 1 ELSE i + n - 1) % n)

\* C11 witness: Down on the last of two servers wrapped to the first
C11_Witness ==
    /\ last.key = "Down"
    /\ last.col = "McpServers"
    /\ Len(mcp_names) = 2
    /\ last.from = Some(1)
    /\ mcp_state = Some(0)

\* enum ActiveColumn, in the order of its declaration
Columns == <<"Environments", "McpServers", "PresetList", "PresetSubmit">>

ColIndex(c) == CHOOSE i \in 1..Len(Columns) : Columns[i] = c

\* C12: Tab moves the focus one step along the ring Environments -> McpServers
\* -> PresetList -> PresetSubmit -> Environments, from every column (so four
\* Tabs come back to the start), and changes nothing but the focused column.
C12_TabRing ==
    [][last'.key = "Tab"
       => /\ active_col' = Columns[(ColIndex(active_col) % Len(Columns)) + 1]
          /\ UNCHANGED <<fs, config, env_names, mcp_names, preset_names, env_state,
                         mcp_state, preset_state, mcp_checked, preset_input, exit,
                         io_failed>>]_vars

\* C12 witness: Tab in the last column went round to the first
C12_Witness ==
    /\ last.key = "Tab"
    /\ last.col = "PresetSubmit"
    /\ active_col = "Environments"

\* C13: Left and Right move the focus exactly one column along Environments,
\* McpServers, PresetList, PresetSubmit; Left in Environments and Right in
\* PresetSubmit leave the focus where it is.
C13_LeftRightClamp ==
    /\ last.key = "Left"
         => active_col = (IF last.col = Columns[1] THEN last.col
                          ELSE Columns[ColIndex(last.col) - 1])
    /\ last.key = "Right"
         => active_col = (IF last.col = Columns[Len(Columns)] THEN last.col
                          ELSE Columns[ColIndex(last.col) + 1])

\* C13 witness: Right was pressed in the last column, and the focus stayed
C13_Witness ==
    /\ last.key = "Right"
    /\ last.col = "PresetSubmit"
    /\ active_col = "PresetSubmit"

---------------------------------------------------------------------------
(* Typing the preset name *)

\* the printable character of the key handled last
TypedChar == IF last.key = "Space" THEN " " ELSE last.char

\* C14: a printable character pressed while PresetSubmit is focused is
\* appended to the draft and nothing else changes; pressed in any other column
\* it leaves the draft as it was.
C14_PrintableAppends ==
    [][last'.key \in {"Char", "Space"}
       => IF active_col = "PresetSubmit"
          THEN /\ preset_input' = Append(preset_input, TypedChar')
               /\ UNCHANGED <<fs, config, env_names, mcp_names, preset_names, env_state,
                              mcp_state, preset_state, mcp_checked, active_col, exit,
                              io_failed>>
          ELSE preset_input' = preset_input]_vars

---------------------------------------------------------------------------
(* The export file *)

\* C15: a Commit issues the write of the export file exactly when the selected
\* environment has mode "claude_desktop" and a non-empty path; with another
\* mode, no mode, an empty path or no selected environment, no file other than
\* the configuration file is touched.
C15_ExportIffDesktopMode ==
    [][last'.key = "CtrlS"
       => LET en     == last'.env
              wanted == /\ en # None
                        /\ config[1].environments[en[1]].mode = Some("claude_desktop")
                        /\ config[1].environments[en[1]].config_path # ""
          IN  /\ (last'.export # "none") <=> wanted
              /\ last'.export = "written"
                    => fs'[config[1].environments[en[1]].config_path].kind = "desktop"
              /\ ~wanted => \A p \in DOMAIN fs \ {ConfigPath} : fs'[p] = fs[p]]_vars

\* C15 witness: a Commit of the exporting environment wrote the export file,
\* and a later Commit of an environment without a mode wrote none
C15_Witness ==
    /\ last.key = "CtrlS"
    /\ last.export = "none"
    /\ last.main = "written"
    /\ config[1].environments[last.env[1]].mode = None
    /\ fs[ExportPath].kind = "desktop"

\* C16: the document a Commit exports holds under mcpServers exactly the
\* checked server names that are defined in the document, each with its command
\* and args as they are and every env value replaced by its expansion; with V=42
\* in the process environment, K="$V" is exported as K="42".
C16_ExportContent ==
    (last.key = "CtrlS" /\ last.export = "written")
    => LET doc  == fs[config[1].environments[last.env[1]].config_path]
           defs == config[1].mcp_servers
       IN  /\ doc.kind = "desktop"
           /\ DOMAIN doc.mcpServers = CheckedSet \cap DOMAIN defs
           /\ \A n \in DOMAIN doc.mcpServers :
                 /\ doc.mcpServers[n].command = defs[n].command
                 /\ doc.mcpServers[n].args = defs[n].args
                 /\ DOMAIN doc.mcpServers[n].env = DOMAIN defs[n].env
                 /\ \A k \in DOMAIN defs[n].env :
                       doc.mcpServers[n].env[k] = expand_env_vars(defs[n].env[k])
           /\ \A n \in DOMAIN doc.mcpServers :
                 defs[n].env.K = <<"$", "V">> => doc.mcpServers[n].env.K = <<"4", "2">>

\* C16 witness: the exported document holds the checked server with K = "42"
C16_Witness ==
    /\ last.key = "CtrlS"
    /\ last.export = "written"
    /\ "a" \in DOMAIN fs[ExportPath].mcpServers
    /\ config[1].mcp_servers["a"].env.K = <<"$", "V">>
    /\ fs[ExportPath].mcpServers["a"].env.K = <<"4", "2">>

---------------------------------------------------------------------------
(* Failures *)

\* C17: when the write of the export file fails in a Commit, the main document
\* is updated all the same: the selected environment's enable list is the
\* checked set and the write of the configuration file is issued.
C17_ExportFailureKeepsMainUpdate ==
    (last.key = "CtrlS" /\ last.export = "failed")
    => /\ EnableSet(config[1].environments[last.env[1]]) = CheckedSet
       /\ last.main # "none"

\* C18: no failure ends the session: the event loop is left by Ctrl+C only.
C18_OnlyCtrlCEndsSession ==
    exit # "running" => last.key = "CtrlC"

\* C19: a Reload whose load fails leaves the loaded document, the name lists,
\* the selections and the checkboxes as they were.
C19_FailedReloadKeepsState ==
    [][(config # None /\ last'.key = "CtrlR" /\ ~last'.loaded)
       => UNCHANGED <<config, env_names, mcp_names, preset_names, env_state, mcp_state,
                      preset_state, mcp_checked>>]_vars

\* C20: when there is no configuration file at startup, ensure_config creates
\* one and the load that follows yields a document with no server and no
\* environment.
C20_CreatedFileLoads ==
    (last.key = "start" /\ last.created)
    => /\ fs[ConfigPath] # Missing
       /\ config # None
       /\ config[1].mcp_servers = <<>>
       /\ config[1].environments = <<>>

---------------------------------------------------------------------------
(* Startup without a document *)

\* C21: when the load at startup fails, the session runs all the same, with
\* empty environment, server and preset lists, no selection in any of them, no
\* checkbox, and Environments focused.
C21_StartupWithoutDocument ==
    (last.key = "start" /\ load_config(fs[ConfigPath]) = {None})
    => /\ exit = "running"
       /\ config = None
       /\ env_names = <<>> /\ mcp_names = <<>> /\ preset_names = <<>>
       /\ env_state = None /\ mcp_state = None /\ preset_state = None
       /\ mcp_checked = <<>>
       /\ active_col = "Environments"

\* C21 witness: the session has started on a file that is not JSON
C21_Witness ==
    /\ last.key = "start"
    /\ fs[ConfigPath] = Unparsable
    /\ config = None
    /\ exit = "running"

---------------------------------------------------------------------------
(* expand_env_vars on arbitrary texts: a session whose document has one
   exporting environment and one checked server, whose env value K is the
   text; Ctrl+S exports its expansion *)

\* the characters of the texts: letters, a set variable's name, the syntax
ExpandChars == {"a", "b", "X", "$", "{", "}"}

ExpandTexts == UNION {[1..k -> ExpandChars] : k \in 0..MaxLen}

ExpandDoc(text) ==
    [kind         |-> "doc",
     mcpServers   |-> [n \in {"a"} |-> [command |-> "echo", args |-> <<>>, env |-> [K |-> text]]],
     environments |-> [e \in {"dev"} |->
        [config_path |-> ExportPath,
         enable      |-> Some(<<"a">>),
         preset      |-> None,
         mode        |-> Some("claude_desktop")]]]

ExpandInit ==
    /\ \E text \in ExpandTexts :
         /\ fs = [p \in {ConfigPath, ExportPath} |->
                    IF p = ConfigPath THEN ExpandDoc(text) ELSE Missing]
         /\ \E cfg \in load_config(fs[ConfigPath]) : Startup(cfg)
    /\ last = [key |-> "start", col |-> "Environments", created |-> FALSE]
    /\ exit = "running"
    /\ events = 0
    /\ io_failed = FALSE

ExpandNext == KeyCtrlS

ExpandSpec == ExpandInit /\ [][ExpandNext]_vars

\* the text given to expand_env_vars, and the text exported for it
ExpandInput == config[1].mcp_servers["a"].env.K

ExpandOutput == fs[ExportPath].mcpServers["a"].env.K

Exported == last.key = "CtrlS" /\ last.export = "written"

\* C22: with X=1, "a$Xb" expands to "a1b".
C22_EmbeddedReferenceKeepsSuffix ==
    (Exported /\ ExpandInput = <<"a", "$", "X", "b">>)
    => ExpandOutput = <<"a", "1", "b">>

\* C22, as the code has it: the name of a bare reference takes every name
\* character that follows, so "a$Xb" refers to Xb (unset) and expands to "a";
\* X's value is inserted and the next character kept when that character is not
\* a name character.
C22_BareReferenceTakesLongestName ==
    Exported
    => \A c \in ExpandChars :
         ExpandInput = <<"a", "$", "X", c>>
         => ExpandOutput = (IF c \in {"a", "b", "X"} THEN <<"a">> ELSE <<"a", "1", c>>)

\* C22 witness: "a$Xb" was exported as "a"
C22_Witness ==
    /\ Exported
    /\ ExpandInput = <<"a", "$", "X", "b">>
    /\ ExpandOutput = <<"a">>

\* s has no "$"
Plain(s) == \A i \in 1..Len(s) : s[i] # "$"

\* s is one complete reference to the variable name: $NAME or ${NAME}
IsReference(s, name) ==
    /\ name # <<>>
    /\ \A i \in 1..Len(name) : name[i] \in {"a", "b", "X"}
    /\ s \in {<<"$">> \o name, <<"$", "{">> \o name \o <<"}">>}

\* C23: a reference to an unset variable expands to nothing (no error), the
\* text around references is kept, and a text without "$" is returned as it is.
C23_UnsetExpandsToEmpty ==
    Exported
    => /\ Plain(ExpandInput) => ExpandOutput = ExpandInput
       /\ \A i \in 0..Len(ExpandInput), j \in 0..Len(ExpandInput) :
             LET pre  == SubSeq(ExpandInput, 1, i)
                 ref  == SubSeq(ExpandInput, i + 1, j)
                 post == SubSeq(ExpandInput, j + 1, Len(ExpandInput))
                 name == IF ref # <<>> /\ ref[Len(ref)] = "}"
                         THEN SubSeq(ref, 3, Len(ref) - 1)
                         ELSE SubSeq(ref, 2, Len(ref))
             IN  (/\ i < j
                  /\ Plain(pre) /\ Plain(post)
                  /\ IsReference(ref, name)
                  /\ name \notin DOMAIN ProcEnv
                  \* a bare name ends where the text ends or a non-name character follows
                  /\ (ref[Len(ref)] # "}" /\ post # <<>>) => post[1] \in {"{", "}"})
                 => ExpandOutput = pre \o post
       /\ ExpandInput = <<"$", "a", "$", "b">> => ExpandOutput = <<>>

\* C23 witness: a reference to the unset variable a, inside other text
C23_Witness ==
    /\ Exported
    /\ ExpandInput = <<"b", "$", "a", "}">>
    /\ ExpandOutput = <<"b", "}">>

---------------------------------------------------------------------------
(* Invariants of the derived state *)

\* C24: in every reachable state mcp_checked has exactly one entry per entry
\* of mcp_names.
C24_CheckedMatchesServers ==
    Len(mcp_checked) = Len(mcp_names)

\* C24 witness: after a Reload the selected environment enables two names, one
\* of them undefined, and there is one checkbox for the one server
C24_Witness ==
    /\ last.key = "CtrlR"
    /\ last.loaded
    /\ SelEnv # None
    /\ Len(mcp_names) = 1
    /\ Cardinality(EnableSet(config[1].environments[SelEnv[1]])) = 2
    /\ Len(mcp_checked) = 1

\* C25: Space in the preset list while no preset is selected (or no
\* environment is) leaves the checkboxes as they were.
C25_SpaceWithoutPresetIgnored ==
    (/\ last.key = "Space"
     /\ last.col = "PresetList"
     /\ (SelEnv = None \/ SelPreset = None))
    => mcp_checked = last.before

---------------------------------------------------------------------------
(* Divergence of memory and file *)

\* a diagnostic was printed: the only one the program has is main's report of
\* the error tui_main returned
DiagnosticReported == exit = "err"

\* the last event was a Commit or a DeletePreset that changed the document
\* and issued its write
DocumentWriteIssued ==
    \/ last.key = "CtrlS" /\ last.main # "none"
    \/ last.key = "CtrlD" /\ last.removed # None

\* C26: after a Commit or a DeletePreset the persisted document equals the
\* document in memory, or the failed write has been reported.
C26_NoSilentDivergence ==
    DocumentWriteIssued
    => (Persisted = Serialize(config[1]) \/ DiagnosticReported)

\* C27: in every reachable state the preset-name list holds exactly the keys
\* of the selected environment's presets in the document in memory, and is
\* empty when no environment is selected or it has no presets.
C27_PresetNamesAreKeys ==
    Range(preset_names) =
        (IF SelEnv = None THEN {} ELSE DOMAIN PresetMap(config[1].environments[SelEnv[1]]))

---------------------------------------------------------------------------
(* Order of the two writes of a Commit *)

\* C28: when a Commit has written its export file, the configuration file
\* already holds the enable list of that Commit (the main document is persisted
\* first, the export afterwards).
C28_MainPersistedBeforeExport ==
    (last.key = "CtrlS" /\ last.export = "written")
    => /\ Persisted.kind = "doc"
       /\ EnableSet(Persisted.environments[last.env[1]]) = CheckedSet

---------------------------------------------------------------------------
(* Reload *)

\* the selection a fresh startup makes in a list: its first entry, or none
FirstOrNone(names) == IF names = <<>> THEN None ELSE Some(0)

\* names lists the keys of a map, each once
ListsKeys(names, keys) == Range(names) = keys /\ Len(names) = Cardinality(keys)

\* C29: after a successful Reload the document in memory is a load of the
\* file, the name lists are its keys, each selection is index 0 of a non-empty
\* list and none otherwise, and the checkboxes are those of the selected
\* environment's enable list: the state a fresh startup computes.
C29_ReloadIsFreshStartup ==
    (last.key = "CtrlR" /\ last.loaded)
    => /\ config \in load_config(Persisted)
       /\ ListsKeys(env_names, DOMAIN config[1].environments)
       /\ ListsKeys(mcp_names, DOMAIN config[1].mcp_servers)
       /\ env_state = FirstOrNone(env_names)
       /\ mcp_state = FirstOrNone(mcp_names)
       /\ ListsKeys(preset_names,
                    IF env_names = <<>> THEN {}
                    ELSE DOMAIN PresetMap(config[1].environments[env_names[1]]))
       /\ preset_state = FirstOrNone(preset_names)
       /\ Len(mcp_checked) = Len(mcp_names)
       /\ \A i \in 1..Len(mcp_names) :
             mcp_checked[i] <=> (/\ env_names # <<>>
                                 /\ mcp_names[i] \in
                                      EnableSet(config[1].environments[env_names[1]]))

\* C29 witness: the second environment was selected, the file was replaced by
\* a document with one environment, and the Reload selected index 0
C29_Witness ==
    /\ last.key = "CtrlR"
    /\ last.loaded
    /\ last.from = Some(1)
    /\ Persisted = DocSolo
    /\ Len(env_names) = 1
    /\ env_state = Some(0)
    /\ mcp_checked = <<TRUE, FALSE>> \/ mcp_checked = <<FALSE, TRUE>>

---------------------------------------------------------------------------
(* Presets as snapshots *)

\* the presets of every environment of the document in memory
AllPresets ==
    IF config = None THEN <<>>
    ELSE [e \in DOMAIN config[1].environments |-> PresetMap(config[1].environments[e])]

\* the events that are no Commit, DeletePreset or Reload
NonSavingKeys == {"Space", "Up", "Down", "Left", "Right", "Tab", "Char", "Backspace"}

\* C30: a preset saved by a Commit records the checked set of that Commit; no
\* toggle, preset application, selection or focus move or typing changes any
\* preset, and a Commit changes no preset but the one it saves (the trimmed
\* draft, in the selected environment).
C30_PresetsAreSnapshots ==
    [][/\ last'.key \in NonSavingKeys => AllPresets' = AllPresets
       /\ last'.key = "CtrlS"
            => /\ DOMAIN AllPresets' = DOMAIN AllPresets
               /\ \A e \in DOMAIN AllPresets : \A n \in DOMAIN AllPresets[e] :
                     (~(/\ last'.preset # "none"
                        /\ last'.env = Some(e)
                        /\ n = Trim(preset_input)))
                     => /\ n \in DOMAIN AllPresets'[e]
                        /\ AllPresets'[e][n] = AllPresets[e][n]
               /\ last'.preset # "none"
                     => /\ Trim(preset_input) \in DOMAIN AllPresets'[last'.env[1]]
                        /\ Range(AllPresets'[last'.env[1]][Trim(preset_input)]) = CheckedSet]_vars

\* C30 witness: a Commit saved preset p from the checked set and left preset
\* q, which records another set, as it was
C30_Witness ==
    /\ last.key = "CtrlS"
    /\ last.preset = "written"
    /\ last.env = Some("dev")
    /\ {<<"p">>, <<"q">>} \subseteq DOMAIN AllPresets["dev"]
    /\ Range(AllPresets["dev"][<<"p">>]) = CheckedSet
    /\ AllPresets["dev"][<<"q">>] = <<"a", "z">>
    /\ CheckedSet # {"a", "z"}

---------------------------------------------------------------------------
(* Commit and the preset draft *)

\* C31: a Commit with Environments, McpServers or PresetList focused creates
\* or changes no preset and leaves the draft as it is, and still sets the
\* selected environment's enable list to the checked set.
C31_CommitOutsidePresetSubmit ==
    [][(last'.key = "CtrlS" /\ active_col # "PresetSubmit")
       => /\ AllPresets' = AllPresets
          /\ preset_input' = preset_input
          /\ SelEnv # None
                => EnableSet(config'[1].environments[SelEnv[1]]) = CheckedSet]_vars

\* C32: after a Commit that inserted or overwrote a preset from the draft, the
\* draft is empty.
C32_DraftClearedAfterSave ==
    (last.key = "CtrlS" /\ last.preset # "none") => preset_input = <<>>

---------------------------------------------------------------------------
(* ToggleServer *)

\* C33: Space with McpServers focused and a server selected inverts the
\* checkbox of that server and leaves every other checkbox, the selections, the
\* draft, the document in memory and the files as they are; a second Space
\* right after it brings the checkboxes back.
C33_ToggleFlipsOne ==
    [][(/\ last'.key = "Space"
        /\ active_col = "McpServers"
        /\ mcp_state # None
        /\ mcp_state[1] < Len(mcp_names))
       => /\ Len(mcp_checked') = Len(mcp_checked)
          /\ \A i \in 1..Len(mcp_checked) :
                mcp_checked'[i] = (IF i = mcp_state[1] + 1 THEN ~mcp_checked[i]
                                                          ELSE mcp_checked[i])
          /\ UNCHANGED <<fs, config, env_names, mcp_names, preset_names, env_state,
                         mcp_state, preset_state, preset_input, active_col>>
          /\ (last.key = "Space" /\ last.col = "McpServers")
                => mcp_checked' = last.before]_vars

\* C33 witness: of two checkboxes the selected second one was inverted
C33_Witness ==
    /\ last.key = "Space"
    /\ last.col = "McpServers"
    /\ mcp_state = Some(1)
    /\ Len(mcp_checked) = 2
    /\ mcp_checked[1] = last.before[1]
    /\ mcp_checked[2] # last.before[2]

---------------------------------------------------------------------------
(* Expansion stays in the export *)

\* C34: a Commit leaves the servers of the document in memory as they are,
\* with their env values unexpanded, and the configuration file it writes
\* holds these same servers (the file is otherwise left as it was).
C34_ExpansionOnlyInExport ==
    [][(last'.key = "CtrlS" /\ config # None)
       => /\ config' # None
          /\ config'[1].mcp_servers = config[1].mcp_servers
          /\ \/ Persisted' = Persisted
             \/ /\ Persisted'.kind = "doc"
                /\ Persisted'.mcpServers = config[1].mcp_servers]_vars

\* C34 witness: a Commit exported K = "42" and wrote the configuration file,
\* which holds K = "$V" as the document in memory does
C34_Witness ==
    /\ last.key = "CtrlS"
    /\ last.export = "written"
    /\ last.main = "written"
    /\ fs[ExportPath].mcpServers["a"].env.K = <<"4", "2">>
    /\ Persisted.mcpServers["a"].env.K = <<"$", "V">>
    /\ config[1].mcp_servers["a"].env.K = <<"$", "V">>

---------------------------------------------------------------------------
(* No document loaded *)

\* C35: while no document is loaded, no key event writes the configuration
\* file or an export file: the files change only by edits made outside the
\* program.
C35_NoWriteWithoutDocument ==
    [][(config = None /\ last'.key # "edit") => fs' = fs]_vars

\* C35 witness: a Reload failed on a file that is not JSON, a Commit was
\* tried next, and the file is as it was
C35_Witness ==
    /\ config = None
    /\ last.key = "CtrlS"
    /\ last.prev[1] = "CtrlR"
    /\ last.main = "none"
    /\ fs[ConfigPath] = Unparsable
    /\ fs[ExportPath] = Missing

---------------------------------------------------------------------------
(* Commit and the other environments *)

\* the environments of the document in memory other than the selected one
OtherEnvs ==
    IF config = None THEN {}
    ELSE {e \in DOMAIN config[1].environments : SelEnv # Some(e)}

\* the export files of the other environments are left as they are
OtherExportsKept ==
    \A e \in OtherEnvs :
        LET path == config[1].environments[e].config_path
        IN  (/\ path \in DOMAIN fs
             /\ path # ConfigPath
             /\ SelEnv # None => path # config[1].environments[SelEnv[1]].config_path)
            => fs'[path] = fs[path]

\* C36: a Commit leaves every environment but the selected one as it is, in
\* the document in memory and in the configuration file, and writes no export
\* file of another environment.
C36_CommitTouchesOnlySelected ==
    [][last'.key = "CtrlS"
       => /\ \A e \in OtherEnvs :
                /\ config'[1].environments[e] = config[1].environments[e]
                /\ (Persisted.kind = "doc" /\ e \in DOMAIN Persisted.environments)
                      => /\ Persisted'.kind = "doc"
                         /\ e \in DOMAIN Persisted'.environments
                         /\ Persisted'.environments[e] = Persisted.environments[e]
          /\ OtherExportsKept]_vars

\* C36, as the code has it: a Commit leaves every environment but the selected
\* one as it is in the document in memory and writes no export file of another
\* environment; the configuration file is left as it was or is written whole
\* from memory, so that it holds the other environments as memory holds them.
C36_CommitKeepsOthersInMemory ==
    [][last'.key = "CtrlS"
       => /\ \A e \in OtherEnvs :
                /\ config'[1].environments[e] = config[1].environments[e]
                /\ \/ Persisted' = Persisted
                   \/ /\ Persisted'.kind = "doc"
                      /\ e \in DOMAIN Persisted'.environments
                      /\ Persisted'.environments[e] = Serialize(config[1]).environments[e]
          /\ OtherExportsKept]_vars

\* C36 witness: a Commit of the environment without a mode wrote the
\* configuration file; the other environment keeps its enable list with the
\* undefined name, in memory and in the file, and its export file was not written
C36_Witness ==
    /\ last.key = "CtrlS"
    /\ last.env = Some("prod")
    /\ last.main = "written"
    /\ "dev" \in OtherEnvs
    /\ config[1].environments["dev"].enable = Some(<<"z", "a">>)
    /\ Persisted.environments["dev"].enable = Some(<<"z", "a">>)
    /\ config[1].environments["prod"].enable = Some(<<"a">>)
    /\ fs[ExportPath] = Missing

---------------------------------------------------------------------------
(* Commit and names of servers that are not defined *)

\* C37: after a Commit the enable list of the environment that was selected
\* holds only names of servers the document defines.
C37_EnableSubsetOfServers ==
    (last.key = "CtrlS" /\ last.env # None /\ config # None)
        => EnableSet(config[1].environments[last.env[1]]) \subseteq DOMAIN config[1].mcp_servers

====
